---- MODULE Spec2Model ----
(***************************************************************************)
(* Model of rpc/src/client/transport/auth.rs: the Authorization type, its  *)
(* Display and FromStr implementations and the authorize function.         *)
(*                                                                         *)
(* A Rust string is modelled as the sequence of its Unicode code points,   *)
(* a byte vector as a sequence of numbers in 0..255.  Every operation of   *)
(* the module is a pure function; the state machine is a caller that draws *)
(* an argument and applies the operations to it.                           *)
(***************************************************************************)
EXTENDS Integers, Sequences, FiniteSets, TLC

VARIABLES pc, arg, result, text, derived, bytes

vars == <<pc, arg, result, text, derived, bytes>>

(* ------------------------------ bounds --------------------------------- *)

\* longest freely generated payload / remainder of a header string
MaxTail == 2

\* longest freely generated userinfo of an authority
MaxUser == 3

(* --------------------------- string helpers ---------------------------- *)

SeqsUpTo(A, n) == UNION {[1..k -> A] : k \in 0..n}

\* the string literals of the source, as code points
BasicLit == <<66, 97, 115, 105, 99, 32>>

BearerLit == <<66, 101, 97, 114, 101, 114, 32>>

AtSign == <<64>>

(* ------------------------- values of the types ------------------------- *)

Basic(cred) == [variant |-> "Basic", str |-> cred]

Bearer(token) == [variant |-> "Bearer", str |-> token]

Some(v) == [kind |-> "Some", value |-> v]

None == [kind |-> "None"]

Ok(v) == [kind |-> "Ok", value |-> v]

Err(e) == [kind |-> "Err", error |-> e]

\* value of a variable whose call has not been made yet
NotCalled == [kind |-> "NotCalled"]

\* Error::invalid_authorization()
invalid_authorization == "InvalidAuthorization"

(* -------------------------- str::strip_prefix -------------------------- *)

starts_with(s, prefix) ==
    /\ Len(s) >= Len(prefix)
    /\ \A i \in 1..Len(prefix) : s[i] = prefix[i]

\* strip_prefix with the length of the removed prefix written as the number 7
strip_prefix_7(s, prefix) ==
    IF starts_with(s, prefix)
    THEN Some(SubSeq(s, 7 + 1, Len(s)))
    ELSE None

strip_prefix(s, prefix) ==
    IF starts_with(s, prefix)
    THEN Some(SubSeq(s, Len(prefix) + 1, Len(s)))
    ELSE None

(* --------------------- impl Display for Authorization ------------------ *)

\* Display with the Basic arm copied into the Bearer arm
fmt_copy_paste(self) ==
    IF self.variant = "Basic"
    THEN BasicLit \o self.str
    ELSE BasicLit \o self.str

fmt(self) ==
    IF self.variant = "Basic"
    THEN BasicLit \o self.str
    ELSE BearerLit \o self.str

(* --------------------- impl FromStr for Authorization ------------------ *)

\* from_str that rejects an empty remainder
from_str_nonempty(input) ==
    IF strip_prefix(input, BasicLit).kind = "Some" /\ Len(input) > Len(BasicLit)
    THEN Ok(Basic(strip_prefix(input, BasicLit).value))
    ELSE IF strip_prefix(input, BearerLit).kind = "Some" /\ Len(input) > Len(BearerLit)
         THEN Ok(Bearer(strip_prefix(input, BearerLit).value))
         ELSE Err(invalid_authorization)

to_ascii_lowercase(s) ==
    [i \in 1..Len(s) |-> IF s[i] >= 65 /\ s[i] <= 90 THEN s[i] + 32 ELSE s[i]]

\* from_str that matches the scheme word without regard to case
from_str_ci(input) ==
    IF starts_with(to_ascii_lowercase(input), to_ascii_lowercase(BasicLit))
    THEN Ok(Basic(SubSeq(input, Len(BasicLit) + 1, Len(input))))
    ELSE IF starts_with(to_ascii_lowercase(input), to_ascii_lowercase(BearerLit))
         THEN Ok(Bearer(SubSeq(input, Len(BearerLit) + 1, Len(input))))
         ELSE Err(invalid_authorization)

\* from_str that stores the input instead of the stripped remainder
from_str_input(input) ==
    IF strip_prefix(input, BasicLit).kind = "Some"
    THEN Ok(Basic(input))
    ELSE IF strip_prefix(input, BearerLit).kind = "Some"
         THEN Ok(Bearer(input))
         ELSE Err(invalid_authorization)

\* from_str with the Basic arm copied into the Bearer arm
from_str_copy_paste(input) ==
    IF strip_prefix(input, BasicLit).kind = "Some"
    THEN Ok(Basic(strip_prefix(input, BasicLit).value))
    ELSE IF strip_prefix(input, BearerLit).kind = "Some"
         THEN Ok(Basic(strip_prefix(input, BearerLit).value))
         ELSE Err(invalid_authorization)

from_str(input) ==
    IF strip_prefix(input, BasicLit).kind = "Some"
    THEN Ok(Basic(strip_prefix(input, BasicLit).value))
    ELSE IF strip_prefix(input, BearerLit).kind = "Some"
         THEN Ok(Bearer(strip_prefix(input, BearerLit).value))
         ELSE Err(invalid_authorization)

(* ----------------------------- str::split_once ------------------------- *)

\* index of the last occurrence of c in s, as rsplit_once would use it
rfind(s, c) ==
    IF \E i \in 1..Len(s) : s[i] = c
    THEN CHOOSE i \in 1..Len(s) : s[i] = c /\ \A j \in (i + 1)..Len(s) : s[j] # c
    ELSE 0

\* index of the first occurrence of the character c in s, 0 when absent
find(s, c) ==
    IF \E i \in 1..Len(s) : s[i] = c
    THEN CHOOSE i \in 1..Len(s) : s[i] = c /\ \A j \in 1..(i - 1) : s[j] # c
    ELSE 0

split_once(s, c) ==
    IF find(s, c) = 0
    THEN None
    ELSE Some(<<SubSeq(s, 1, find(s, c) - 1), SubSeq(s, find(s, c) + 1, Len(s))>>)

(* ------------------------------ str::as_bytes -------------------------- *)

\* UTF-8 encoding of one code point
encode_utf8(cp) ==
    IF cp < 128 THEN <<cp>>
    ELSE IF cp < 2048 THEN <<192 + (cp \div 64), 128 + (cp % 64)>>
    ELSE IF cp < 65536
         THEN <<224 + (cp \div 4096), 128 + ((cp \div 64) % 64), 128 + (cp % 64)>>
         ELSE <<240 + (cp \div 262144), 128 + ((cp \div 4096) % 64),
                128 + ((cp \div 64) % 64), 128 + (cp % 64)>>

RECURSIVE as_bytes(_)
as_bytes(s) ==
    IF s = <<>> THEN <<>> ELSE encode_utf8(Head(s)) \o as_bytes(Tail(s))

(* ------------------------ subtle_encoding::base64 ---------------------- *)

\* an alphabet taken as one contiguous run of characters from 'A'
encode_6bits_contiguous(v) == 65 + v

\* the character of the standard alphabet for a 6-bit value
encode_6bits(v) ==
    IF v < 26 THEN 65 + v
    ELSE IF v < 52 THEN 97 + (v - 26)
    ELSE IF v < 62 THEN 48 + (v - 52)
    ELSE IF v = 62 THEN 43
    ELSE 47

\* three source bytes to four characters
encode_3bytes(b0, b1, b2) ==
    << encode_6bits(b0 \div 4),
       encode_6bits((b0 % 4) * 16 + (b1 \div 16)),
       encode_6bits((b1 % 16) * 4 + (b2 \div 64)),
       encode_6bits(b2 % 64) >>

RECURSIVE encode(_)
encode(src) ==
    IF Len(src) = 0 THEN <<>>
    ELSE IF Len(src) = 1
         THEN SubSeq(encode_3bytes(src[1], 0, 0), 1, 2) \o <<61, 61>>
    ELSE IF Len(src) = 2
         THEN SubSeq(encode_3bytes(src[1], src[2], 0), 1, 3) \o <<61>>
    ELSE encode_3bytes(src[1], src[2], src[3]) \o encode(SubSeq(src, 4, Len(src)))

(* ------------------------- String::from_utf8_lossy --------------------- *)

is_cont(b, lo, hi) == b >= lo /\ b <= hi

\* width of the UTF-8 sequence announced by a leading byte, 0 when invalid
utf8_char_width(b) ==
    IF b < 128 THEN 1
    ELSE IF b >= 194 /\ b <= 223 THEN 2
    ELSE IF b >= 224 /\ b <= 239 THEN 3
    ELSE IF b >= 240 /\ b <= 244 THEN 4
    ELSE 0

\* allowed range of the second byte after the leading byte b
second_lo(b) == IF b = 224 THEN 160 ELSE IF b = 240 THEN 144 ELSE 128

second_hi(b) == IF b = 237 THEN 159 ELSE IF b = 244 THEN 143 ELSE 191

\* number of leading bytes of v that form a valid prefix of one sequence
valid_up_to(v) ==
    LET w == utf8_char_width(v[1]) IN
    IF w = 0 THEN 0
    ELSE IF w = 1 THEN 1
    ELSE IF Len(v) < 2 \/ ~is_cont(v[2], second_lo(v[1]), second_hi(v[1])) THEN 1
    ELSE IF w = 2 THEN 2
    ELSE IF Len(v) < 3 \/ ~is_cont(v[3], 128, 191) THEN 2
    ELSE IF w = 3 THEN 3
    ELSE IF Len(v) < 4 \/ ~is_cont(v[4], 128, 191) THEN 3
    ELSE 4

\* code point of the complete sequence of width w at the head of v
decode_utf8(v, w) ==
    IF w = 1 THEN v[1]
    ELSE IF w = 2 THEN (v[1] - 192) * 64 + (v[2] - 128)
    ELSE IF w = 3 THEN (v[1] - 224) * 4096 + (v[2] - 128) * 64 + (v[3] - 128)
    ELSE (v[1] - 240) * 262144 + (v[2] - 128) * 4096 + (v[3] - 128) * 64 + (v[4] - 128)

RECURSIVE from_utf8_lossy(_)
from_utf8_lossy(v) ==
    IF v = <<>> THEN <<>>
    ELSE LET w == utf8_char_width(v[1])
             n == valid_up_to(v)
         IN IF w > 0 /\ n = w
            THEN <<decode_utf8(v, w)>> \o from_utf8_lossy(SubSeq(v, w + 1, Len(v)))
            ELSE <<65533>> \o
                 from_utf8_lossy(SubSeq(v, (IF n = 0 THEN 1 ELSE n) + 1, Len(v)))

(* -------------------------------- authorize ---------------------------- *)

\* the output of base64::encode that authorize computes for an authority
authorize_bytes(authority) ==
    IF split_once(authority, 64).kind = "Some"
    THEN encode(as_bytes(split_once(authority, 64).value[1]))
    ELSE <<>>

\* authorize that takes an empty userinfo for an absent one
authorize_nonempty(authority) ==
    IF split_once(authority, 64).kind = "Some" /\ split_once(authority, 64).value[1] # <<>>
    THEN Some(Basic(from_utf8_lossy(authorize_bytes(authority))))
    ELSE None

authorize(authority) ==
    IF split_once(authority, 64).kind = "Some"
    THEN Some(Basic(from_utf8_lossy(authorize_bytes(authority))))
    ELSE None

(* ------------------------------- inputs -------------------------------- *)

\* "abc", "Basic x", "Bearer y", "dG90bw=="
FixedTails ==
    { <<97, 98, 99>>,
      BasicLit \o <<120>>,
      BearerLit \o <<121>>,
      <<100, 71, 57, 48, 98, 119, 61, 61>> }

\* payloads, tokens and remainders: 'a', ' ' and U+00E9 freely combined
Tails == SeqsUpTo({97, 32, 233}, MaxTail) \cup FixedTails

\* "Basic ", "Bearer ", "basic ", "BEARER ", "Basic", "Bearer", " Basic ",
\* " Bearer ", "Basic" TAB, "Bearer" TAB and the empty head
Heads ==
    { BasicLit,
      BearerLit,
      <<98, 97, 115, 105, 99, 32>>,
      <<66, 69, 65, 82, 69, 82, 32>>,
      <<66, 97, 115, 105, 99>>,
      <<66, 101, 97, 114, 101, 114>>,
      <<32>> \o BasicLit,
      <<32>> \o BearerLit,
      <<66, 97, 115, 105, 99, 9>>,
      <<66, 101, 97, 114, 101, 114, 9>>,
      <<>> }

\* header values handed to from_str
Inputs == {h \o t : h \in Heads, t \in Tails}

\* every value of the enum over the payloads
Creds == {Basic(t) : t \in Tails} \cup {Bearer(t) : t \in Tails}

\* "toto", "toto:tata"
FixedUsers ==
    { <<116, 111, 116, 111>>,
      <<116, 111, 116, 111, 58, 116, 97, 116, 97>> }

\* userinfo: 't', ':', '>', '?' and U+00E9 freely combined
UserInfos == SeqsUpTo({116, 58, 62, 63, 233}, MaxUser) \cup FixedUsers

\* "example.com", "h", "h@x", "@h", ""
Rests ==
    { <<101, 120, 97, 109, 112, 108, 101, 46, 99, 111, 109>>,
      <<104>>,
      <<104, 64, 120>>,
      <<64, 104>>,
      <<>> }

\* authorities without '@': "example.com", "h:80", "toto", ""
NoAt ==
    { <<101, 120, 97, 109, 112, 108, 101, 46, 99, 111, 109>>,
      <<104, 58, 56, 48>>,
      <<116, 111, 116, 111>>,
      <<>> }

\* the strings Url::authority() hands to authorize
Authorities == {u \o AtSign \o r : u \in UserInfos, r \in Rests} \cup NoAt

Args ==
    {[kind |-> "header", input |-> s] : s \in Inputs}
    \cup {[kind |-> "cred", cred |-> c] : c \in Creds}
    \cup {[kind |-> "url", authority |-> a] : a \in Authorities}

(* ---------------------------- the caller ------------------------------- *)

Init ==
    /\ pc = "start"
    /\ arg \in Args
    /\ result = NotCalled
    /\ derived = NotCalled
    /\ text = <<>>
    /\ bytes = <<>>

\* input.parse::<Authorization>()
CallFromStr ==
    /\ pc = "start"
    /\ arg.kind = "header"
    /\ result' = from_str(arg.input)
    /\ pc' = "parsed"
    /\ UNCHANGED <<arg, text, derived, bytes>>

\* the parsed value is written back with to_string()
CallFmtParsed ==
    /\ pc = "parsed"
    /\ result.kind = "Ok"
    /\ text' = fmt(result.value)
    /\ pc' = "reformatted"
    /\ UNCHANGED <<arg, result, derived, bytes>>

\* a constructed value is written with to_string()
CallFmt ==
    /\ pc = "start"
    /\ arg.kind = "cred"
    /\ text' = fmt(arg.cred)
    /\ pc' = "formatted"
    /\ UNCHANGED <<arg, result, derived, bytes>>

\* the text of a constructed value is parsed again
CallFromStrText ==
    /\ pc = "formatted"
    /\ result' = from_str(text)
    /\ pc' = "reparsed"
    /\ UNCHANGED <<arg, text, derived, bytes>>

\* authorize(&url)
CallAuthorize ==
    /\ pc = "start"
    /\ arg.kind = "url"
    /\ derived' = authorize(arg.authority)
    /\ bytes' = authorize_bytes(arg.authority)
    /\ pc' = "derived"
    /\ UNCHANGED <<arg, result, text>>

\* the derived value is written into the Authorization header
CallFmtDerived ==
    /\ pc = "derived"
    /\ derived.kind = "Some"
    /\ text' = fmt(derived.value)
    /\ pc' = "header"
    /\ UNCHANGED <<arg, result, derived, bytes>>

Next ==
    \/ CallFromStr
    \/ CallFmtParsed
    \/ CallFmt
    \/ CallFromStrText
    \/ CallAuthorize
    \/ CallFmtDerived

Spec == Init /\ [][Next]_vars

(* ------------------------ observations of a run ------------------------ *)

\* from_str has returned
Parsed == pc \in {"parsed", "reformatted", "reparsed"}

\* the string the last from_str call was given
ParsedInput == IF pc = "reparsed" THEN text ELSE arg.input

\* Display has returned
Formatted == pc \in {"formatted", "reparsed", "reformatted", "header"}

\* the value the last Display call was given
FormattedCred ==
    IF pc = "reformatted" THEN result.value
    ELSE IF pc = "header" THEN derived.value
    ELSE arg.cred

\* authorize has returned
Derived == pc \in {"derived", "header"}

\* s begins with the literal lit, character for character
HasLiteral(s, lit) == Len(s) >= Len(lit) /\ SubSeq(s, 1, Len(lit)) = lit

\* s with its first n characters removed
Drop(s, n) == SubSeq(s, n + 1, Len(s))

HasAt(s) == \E i \in 1..Len(s) : s[i] = 64

\* the text before the first '@' of s
BeforeFirstAt(s) ==
    LET k == CHOOSE i \in 1..Len(s) : s[i] = 64 /\ \A j \in 1..(i - 1) : s[j] # 64
    IN SubSeq(s, 1, k - 1)

\* A-Z, a-z, 0-9, '+', '/', '='
Base64Chars == (65..90) \cup (97..122) \cup (48..57) \cup {43, 47, 61}

\* the 6-bit value a character of the standard alphabet stands for
Base64Value(c) ==
    IF c >= 65 /\ c <= 90 THEN c - 65
    ELSE IF c >= 97 /\ c <= 122 THEN c - 97 + 26
    ELSE IF c >= 48 /\ c <= 57 THEN c - 48 + 52
    ELSE IF c = 43 THEN 62
    ELSE 63

\* the bytes a padded base64 text stands for (RFC 4648, section 4)
RECURSIVE Base64Decode(_)
Base64Decode(t) ==
    IF Len(t) < 4 THEN <<>>
    ELSE LET n == Base64Value(t[1]) * 262144 + Base64Value(t[2]) * 4096
                  + (IF t[3] = 61 THEN 0 ELSE Base64Value(t[3]) * 64)
                  + (IF t[4] = 61 THEN 0 ELSE Base64Value(t[4]))
             all == <<n \div 65536, (n \div 256) % 256, n % 256>>
         IN IF t[3] = 61 THEN SubSeq(all, 1, 1)
            ELSE IF t[4] = 61 THEN SubSeq(all, 1, 2)
            ELSE all \o Base64Decode(Drop(t, 4))

\* t is the canonical padded encoding of the bytes b
IsBase64Of(t, b) ==
    /\ Len(t) = 4 * ((Len(b) + 2) \div 3)
    /\ \A i \in 1..Len(t) : t[i] \in Base64Chars
    /\ \A i \in 1..Len(t) : t[i] = 61 => i > Len(t) - 2 /\ i > 1 + (Len(b) * 4) \div 3
    /\ Base64Decode(t) = b
    /\ Len(b) % 3 = 1 => Base64Value(t[Len(t) - 2]) % 16 = 0
    /\ Len(b) % 3 = 2 => Base64Value(t[Len(t) - 1]) % 4 = 0

(* ------------------------------- claims -------------------------------- *)

\* C1: parsing the Display text of any Authorization value succeeds and
\* returns a value equal to it (same variant, identical stored string).
C1_RoundTrip ==
    pc = "reparsed" => result = Ok(arg.cred)

\* C1 witness: Basic("Bearer y") and Bearer("") have gone through the round trip
C1_Witness ==
    /\ pc = "reparsed"
    /\ result.kind = "Ok"
    /\ \/ result.value = Basic(BearerLit \o <<121>>)
       \/ result.value = Bearer(<<>>)

\* C2: from_str returns InvalidAuthorization exactly when the input starts
\* with neither "Basic " nor "Bearer "; the match is case-sensitive, exact
\* and untrimmed, so "basic abc", "BEARER abc", "abc", " Basic abc", "Basic"
\* and "" fail; no other error kind is produced.
C2_ErrorExactly ==
    Parsed =>
        /\ result.kind \in {"Ok", "Err"}
        /\ result.kind = "Err" <=>
               ~HasLiteral(ParsedInput, BasicLit) /\ ~HasLiteral(ParsedInput, BearerLit)
        /\ result.kind = "Err" => result = Err("InvalidAuthorization")
        /\ ParsedInput \in { <<98, 97, 115, 105, 99, 32, 97, 98, 99>>,
                             <<66, 69, 65, 82, 69, 82, 32, 97, 98, 99>>,
                             <<97, 98, 99>>,
                             <<32, 66, 97, 115, 105, 99, 32, 97, 98, 99>>,
                             <<66, 97, 115, 105, 99>>,
                             <<>> }
           => result = Err("InvalidAuthorization")

\* C2 witness: "basic abc" has been rejected
C2_Witness ==
    /\ pc = "parsed"
    /\ arg.input = <<98, 97, 115, 105, 99, 32, 97, 98, 99>>
    /\ result.kind = "Err"

\* C3: when from_str succeeds the variant follows the prefix and the stored
\* string is the remainder verbatim: "Basic " ++ r gives Basic(r) and
\* "Bearer " ++ r gives Bearer(r), for every r including the empty string.
C3_Remainder ==
    Parsed =>
        /\ \A k \in 0..Len(ParsedInput) :
              LET r == Drop(ParsedInput, k) IN
              /\ ParsedInput = BasicLit \o r => result = Ok(Basic(r))
              /\ ParsedInput = BearerLit \o r => result = Ok(Bearer(r))
        /\ result.kind = "Ok" =>
              \E k \in 0..Len(ParsedInput) :
                 LET r == Drop(ParsedInput, k) IN
                 \/ ParsedInput = BasicLit \o r /\ result.value = Basic(r)
                 \/ ParsedInput = BearerLit \o r /\ result.value = Bearer(r)

\* C3 witness: "Bearer " followed by " a" has been parsed, the space is kept
C3_Witness ==
    /\ pc = "parsed"
    /\ arg.input = BearerLit \o <<32, 97>>
    /\ result = Ok(Bearer(<<32, 97>>))

\* C4: the Display text of Basic(x) is exactly "Basic " ++ x and that of
\* Bearer(x) exactly "Bearer " ++ x: the scheme word, one space, then x and
\* nothing else.
C4_FormatExact ==
    Formatted =>
        LET word == IF FormattedCred.variant = "Basic"
                    THEN <<66, 97, 115, 105, 99>>
                    ELSE <<66, 101, 97, 114, 101, 114>>
            n == Len(word)
        IN /\ FormattedCred.variant \in {"Basic", "Bearer"}
           /\ Len(text) = n + 1 + Len(FormattedCred.str)
           /\ SubSeq(text, 1, n) = word
           /\ text[n + 1] = 32
           /\ Drop(text, n + 1) = FormattedCred.str

\* C4 witness: Bearer(" ") has been formatted
C4_Witness ==
    /\ pc = "formatted"
    /\ arg.cred = Bearer(<<32>>)
    /\ text = <<66, 101, 97, 114, 101, 114, 32, 32>>

\* C5: authorize returns None exactly when the authority contains no '@',
\* and Some(Basic(_)) otherwise, also for an empty userinfo; never Bearer.
C5_NoneIffNoAt ==
    Derived =>
        /\ derived.kind \in {"None", "Some"}
        /\ derived = None <=> ~HasAt(arg.authority)
        /\ derived.kind = "Some" => derived.value.variant = "Basic"

\* C5 witness: the authority "@h" has given Some(Basic(""))
C5_Witness ==
    /\ pc = "derived"
    /\ arg.authority = <<64, 104>>
    /\ derived = Some(Basic(<<>>))

\* C6: for an authority with '@' the payload is the padded standard base64
\* of exactly the text before the first '@'; what follows does not matter.
\* "toto@example.com" gives "dG90bw==", "toto:tata@example.com" gives
\* "dG90bzp0YXRh".
C6_PayloadOfUserinfo ==
    Derived /\ HasAt(arg.authority) =>
        /\ derived.kind = "Some"
        /\ IsBase64Of(derived.value.str, as_bytes(BeforeFirstAt(arg.authority)))
        /\ BeforeFirstAt(arg.authority) = <<116, 111, 116, 111>>
           => derived.value.str = <<100, 71, 57, 48, 98, 119, 61, 61>>
        /\ BeforeFirstAt(arg.authority) = <<116, 111, 116, 111, 58, 116, 97, 116, 97>>
           => derived.value.str = <<100, 71, 57, 48, 98, 122, 112, 48, 89, 88, 82, 104>>

\* C6 witness: "toto@h@x", an authority with a second '@', has given "dG90bw=="
C6_Witness ==
    /\ pc = "derived"
    /\ arg.authority = <<116, 111, 116, 111, 64, 104, 64, 120>>
    /\ derived = Some(Basic(<<100, 71, 57, 48, 98, 119, 61, 61>>))

\* C7: only HTTP Basic authentication is supported: every value that is
\* constructed, parsed by from_str or returned by authorize is Basic.
C7_OnlyBasic ==
    /\ Formatted => FormattedCred.variant = "Basic"
    /\ Parsed /\ result.kind = "Ok" => result.value.variant = "Basic"
    /\ Derived /\ derived.kind = "Some" => derived.value.variant = "Basic"

\* C8: the payload authorize produces is ASCII of the base64 alphabet with a
\* length that is a multiple of 4, and the lossy UTF-8 decoding is the
\* identity on the encoder's output: no replacement character, no byte
\* changed or dropped.
C8_LossyIsIdentity ==
    Derived /\ derived.kind = "Some" =>
        /\ \A i \in 1..Len(bytes) : bytes[i] \in Base64Chars /\ bytes[i] < 128
        /\ Len(bytes) % 4 = 0
        /\ derived.value.str = bytes
        /\ \A i \in 1..Len(derived.value.str) : derived.value.str[i] # 65533

\* C8 witness: a userinfo with a non-ASCII character has been encoded to a
\* padded payload that uses '/'
C8_Witness ==
    /\ pc = "derived"
    /\ derived.kind = "Some"
    /\ \E i \in 1..Len(arg.authority) : arg.authority[i] = 233
    /\ \E i \in 1..Len(bytes) : bytes[i] = 47
    /\ bytes # <<>> /\ bytes[Len(bytes)] = 61

\* C9: for every input from_str accepts, the Display text of the parsed
\* value is the input again; from_str is injective on accepted inputs, no
\* input carries both prefixes, and testing "Bearer " before "Basic " would
\* give the same result.
C9_ReverseRoundTrip ==
    /\ pc = "reformatted" => text = arg.input
    /\ Parsed /\ result.kind = "Ok" =>
          /\ \A s \in Inputs : from_str(s) = result => s = ParsedInput
          /\ ~(HasLiteral(ParsedInput, BasicLit) /\ HasLiteral(ParsedInput, BearerLit))
    /\ Parsed =>
          result = IF HasLiteral(ParsedInput, BearerLit)
                   THEN Ok(Bearer(Drop(ParsedInput, Len(BearerLit))))
                   ELSE IF HasLiteral(ParsedInput, BasicLit)
                        THEN Ok(Basic(Drop(ParsedInput, Len(BasicLit))))
                        ELSE Err("InvalidAuthorization")

\* C9 witness: "Bearer Basic x" has been parsed and written back
C9_Witness ==
    /\ pc = "reformatted"
    /\ arg.input = BearerLit \o BasicLit \o <<120>>
    /\ text = arg.input

\* C10 (as stated): the prefix "Basic " is 7 characters long, the payload is
\* the input without its first 7 characters.
C10_SevenChars ==
    Parsed /\ HasLiteral(ParsedInput, BasicLit) =>
        /\ result.kind = "Ok"
        /\ Len(result.value.str) = Len(ParsedInput) - 7
        /\ result.value.str = Drop(ParsedInput, 7)

\* C10 (amended): the prefix "Basic " is 6 characters long including the
\* trailing space, the payload is the input without its first 6 characters
\* (payload length = input length - 6).
C10_SixChars ==
    Parsed /\ HasLiteral(ParsedInput, BasicLit) =>
        /\ result.kind = "Ok"
        /\ result.value.variant = "Basic"
        /\ Len(result.value.str) = Len(ParsedInput) - 6
        /\ result.value.str = Drop(ParsedInput, 6)

\* C10 witness: "Basic abc", 9 characters, has been parsed to the 3 of "abc"
C10_Witness ==
    /\ pc = "parsed"
    /\ arg.input = <<66, 97, 115, 105, 99, 32, 97, 98, 99>>
    /\ result = Ok(Basic(<<97, 98, 99>>))

====
